---- MODULE Spec2Model ----
(***************************************************************************)
(* WebSocket frame parser / encoder of src/lib/frame.ts                    *)
(* (class WebsocketParser, functions generateFirstByte and unmask),        *)
(* driven by the data handler loop of the README (src/unnamed/part_000).   *)
(*                                                                         *)
(* Buffers are sequences of bytes (0..255).  Offsets are 0-based as in the *)
(* source; Sequences are 1-based, hence the "+ 1" at every index.          *)
(***************************************************************************)
EXTENDS Integers, Sequences, FiniteSets, TLC

VARIABLES
    parsedFrames,     \* WebsocketParser.parsedFrames
    fragmentedFrame,  \* WebsocketParser.fragmentedFrame (undefined when none)
    remainingBuff,    \* the data handler's local: what the last readFrame returned
    err,              \* what the last readFrame / createFrame call threw ("none" if it returned)
    rest,             \* bytes of the connection's stream the transport has not delivered yet
    sent,             \* the frames the peer put on the stream (descriptors, never changes)
    nChunks,          \* number of data events so far
    lastOp,           \* "init", "read", "clear", "create", "unmask"
    cleared,          \* whether clearFrames has been called on this connection
    lastEmitted,      \* the IFrame objects the last readFrame call constructed
    framesBefore,     \* parsedFrames at the start of the last readFrame call
    pendingBefore,    \* whether a fragmentedFrame existed at the start of the last readFrame call
    hdr0,             \* byte 0 of the header the last readFrame call parsed, -1 if it parsed none
    hdrCut,           \* whether a data event so far ended inside a frame's header
    payCut,           \* whether a data event so far ended inside a frame's payload
    payloadIn,        \* createFrame's payload argument
    optionsIn,        \* createFrame's options argument
    rawFrame,         \* what createFrame returned
    mRaw,             \* unmask's rawPayload argument
    mKey,             \* unmask's maskingKey argument
    mOut              \* the results of the successive unmask applications

vars == <<parsedFrames, fragmentedFrame, remainingBuff, err, rest, sent, nChunks,
          lastOp, cleared, lastEmitted, framesBefore, pendingBefore, hdr0,
          hdrCut, payCut, payloadIn, optionsIn, rawFrame, mRaw, mKey, mOut>>

decoderVars == <<parsedFrames, fragmentedFrame, remainingBuff, rest, nChunks,
                 lastEmitted, framesBefore, pendingBefore, hdr0>>
encoderVars == <<payloadIn, optionsIn, rawFrame>>
maskVars    == <<mRaw, mKey, mOut>>
cutVars     == <<hdrCut, payCut>>

(***************************************************************************)
(* Bounds of the model.                                                    *)
(***************************************************************************)
MaxChunks == 3      \* data events per connection
MaxLen    == 5      \* longest payload handed to unmask on its own

(***************************************************************************)
(* Bytes and Node.js Buffer primitives.                                    *)
(***************************************************************************)
Min(a, b) == IF a < b THEN a ELSE b

\* (b >> n) & 0x1
BitAt(b, n) == (b \div (2 ^ n)) % 2

\* a | b on bytes
orByte(a, b) ==
    LET bit(n) == IF BitAt(a, n) + BitAt(b, n) > 0 THEN 1 ELSE 0
    IN  bit(0) + 2 * bit(1) + 4 * bit(2) + 8 * bit(3)
        + 16 * bit(4) + 32 * bit(5) + 64 * bit(6) + 128 * bit(7)

\* a ^ b on bytes
xorByte(a, b) ==
    LET bit(n) == (BitAt(a, n) + BitAt(b, n)) % 2
    IN  bit(0) + 2 * bit(1) + 4 * bit(2) + 8 * bit(3)
        + 16 * bit(4) + 32 * bit(5) + 64 * bit(6) + 128 * bit(7)

\* buf[idx] used as a bitwise operand: an index past the end reads undefined,
\* which ^ coerces to 0
At(buf, idx) == IF idx < Len(buf) THEN buf[idx + 1] ELSE 0

\* Buffer.alloc(n): n zero bytes
Alloc(n) == [i \in 1..n |-> 0]

\* buf.slice(start, end) for start, end >= 0: both ends are clamped to the length
Slice(buf, start, end) ==
    LET s == Min(start, Len(buf))
        e == Min(end, Len(buf))
    IN  IF e <= s THEN <<>> ELSE SubSeq(buf, s + 1, e)

\* the bounds check of buf.readUIntN(offset): throws RangeError when FALSE
InRange(buf, offset, n) == offset + n <= Len(buf)

readUInt8(buf, offset) == buf[offset + 1]

readUInt16BE(buf, offset) == buf[offset + 1] * 256 + buf[offset + 2]

\* TLC's integers are 32-bit signed: a value from 2^30 up is represented by
\* 2^30.  Every buffer of the model is shorter than that, so no comparison,
\* slice or test against 0 made with the value changes.
readUInt32BE(buf, offset) ==
    IF buf[offset + 1] >= 64 THEN 2 ^ 30
    ELSE buf[offset + 1] * 16777216 + buf[offset + 2] * 65536
         + buf[offset + 3] * 256 + buf[offset + 4]

(***************************************************************************)
(* unmask (frame.ts 203-214)                                               *)
(***************************************************************************)
unmask(rawPayload, payloadLen, maskingKey) ==
    [i \in 1..payloadLen |->
        xorByte(At(rawPayload, i - 1), At(maskingKey, (i - 1) % 4))]

(***************************************************************************)
(* WebsocketParser state helpers                                           *)
(***************************************************************************)
\* the value of fragmentedFrame when no partial frame is pending
undefined == [undefined |-> TRUE]

\* this.parsedFrames.push(frame)
push_front(frames, frame) == <<frame>> \o frames

push(frames, frame) == Append(frames, frame)

\* clearFrames(): the new value of parsedFrames
clearFrames_keep(frames) == frames

clearFrames(frames) == <<>>

\* what a call leaves behind: the decoder's fields, the returned buffer, the
\* error thrown ("none" when the call returned) and the frames it constructed
Outcome(ff, frames, ret, e, emitted) ==
    [fragmentedFrame |-> ff, parsedFrames |-> frames, ret |-> ret,
     err |-> e, emitted |-> emitted]

(***************************************************************************)
(* readFragmentedBuffer (frame.ts 156-200)                                 *)
(***************************************************************************)
\* lines 178-182: the payload of the completed frame
fragmentPayload(ff, rawPayload) ==
    IF ff.mask THEN unmask(rawPayload, ff.payloadLen, ff.maskingKey) ELSE rawPayload

\* lines 184-194: the IFrame built from the stored header fields
fragmentFrame(ff, payload) ==
    [fin |-> ff.fin, rsv1 |-> ff.rsv1, rsv2 |-> ff.rsv2, rsv3 |-> ff.rsv3,
     opcode |-> ff.opcode, mask |-> ff.mask, payload |-> payload,
     payloadLen |-> ff.payloadLen, frameLen |-> ff.byteOffset + Len(payload)]

\* lines 196-199: push the frame, drop the pending frame, return the tail
emitFragment_noPush(frames, frame, tail) ==
    Outcome(undefined, frames, tail, "none", <<frame>>)

emitFragment(frames, frame, tail) ==
    Outcome(undefined, push(frames, frame), tail, "none", <<frame>>)

\* lines 163-199, with remainingByteLen of line 161
fragmentStep_offByOne(ff, frames, chunk, remainingByteLen) ==
    IF remainingByteLen > Len(chunk)
    THEN Outcome([ff EXCEPT !.rawPayload = @ \o chunk], frames, <<>>, "none", <<>>)
    ELSE emitFragment(frames,
             fragmentFrame(ff, fragmentPayload(ff,
                 ff.rawPayload \o Slice(chunk, 0, remainingByteLen))),
             Slice(chunk, remainingByteLen + 1, Len(chunk)))

fragmentStep_dropBuffered(ff, frames, chunk, remainingByteLen) ==
    IF remainingByteLen > Len(chunk)
    THEN Outcome([ff EXCEPT !.rawPayload = chunk], frames, <<>>, "none", <<>>)
    ELSE emitFragment(frames,
             fragmentFrame(ff, fragmentPayload(ff,
                 ff.rawPayload \o Slice(chunk, 0, remainingByteLen))),
             Slice(chunk, remainingByteLen, Len(chunk)))

fragmentStep_returnsChunk(ff, frames, chunk, remainingByteLen) ==
    IF remainingByteLen > Len(chunk)
    THEN Outcome([ff EXCEPT !.rawPayload = @ \o chunk], frames, chunk, "none", <<>>)
    ELSE emitFragment(frames,
             fragmentFrame(ff, fragmentPayload(ff,
                 ff.rawPayload \o Slice(chunk, 0, remainingByteLen))),
             Slice(chunk, remainingByteLen, Len(chunk)))

fragmentStep_forgetsChunk(ff, frames, chunk, remainingByteLen) ==
    IF remainingByteLen > Len(chunk)
    THEN Outcome(ff, frames, <<>>, "none", <<>>)
    ELSE emitFragment(frames,
             fragmentFrame(ff, fragmentPayload(ff,
                 ff.rawPayload \o Slice(chunk, 0, remainingByteLen))),
             Slice(chunk, remainingByteLen, Len(chunk)))

fragmentStep(ff, frames, chunk, remainingByteLen) ==
    IF remainingByteLen > Len(chunk)
    THEN Outcome([ff EXCEPT !.rawPayload = @ \o chunk], frames, <<>>, "none", <<>>)
    ELSE emitFragment(frames,
             fragmentFrame(ff, fragmentPayload(ff,
                 ff.rawPayload \o Slice(chunk, 0, remainingByteLen))),
             Slice(chunk, remainingByteLen, Len(chunk)))

readFragmentedBuffer(ff, frames, chunk) ==
    IF ff = undefined
    THEN Outcome(ff, frames, chunk, "none", <<>>)
    ELSE fragmentStep(ff, frames, chunk, ff.payloadLen - Len(ff.rawPayload))

(***************************************************************************)
(* readFrame (frame.ts 61-154)                                             *)
(***************************************************************************)
\* line 77: rsv1 !== 0 || rsv2 !== 0 || rsv3 !== 0
rsvNonZero_noRsv3(rsv1, rsv2, rsv3) == rsv1 # 0 \/ rsv2 # 0

rsvNonZero(rsv1, rsv2, rsv3) == rsv1 # 0 \/ rsv2 # 0 \/ rsv3 # 0

\* line 103: first32bits !== 0
unsupportedLength_never(first32bits) == FALSE

unsupportedLength(first32bits) == first32bits # 0

\* line 120: rawPayload.byteLength < payloadLen
incompleteFrame_never(rawPayload, payloadLen) == FALSE

incompleteFrame_orEqual(rawPayload, payloadLen) == Len(rawPayload) <= payloadLen

incompleteFrame(rawPayload, payloadLen) == Len(rawPayload) < payloadLen

\* a length parse: the error thrown or the length and the offset after it
Length(e, payloadLen, byteOffset) ==
    [err |-> e, payloadLen |-> payloadLen, byteOffset |-> byteOffset]

\* lines 88-97: the 7-bit length, replaced by the 16-bit field when it is 126
lengthField16(chunk, len7) ==
    IF len7 = 126
    THEN IF InRange(chunk, 2, 2)
         THEN Length("none", readUInt16BE(chunk, 2), 2 + 2)
         ELSE Length("RangeError", 0, 0)
    ELSE Length("none", len7, 2)

\* lines 99-109: the test for 127 is made on the length as it stands after
\* lines 93-97
lengthField64(chunk, len) ==
    IF len.err # "none" THEN len
    ELSE IF len.payloadLen = 127
    THEN IF ~ InRange(chunk, len.byteOffset, 4) \/ ~ InRange(chunk, len.byteOffset + 4, 4)
         THEN Length("RangeError", 0, 0)
         ELSE IF unsupportedLength(readUInt32BE(chunk, len.byteOffset))
         THEN Length("UnsupportedLength", 0, 0)
         ELSE Length("none", readUInt32BE(chunk, len.byteOffset + 4), len.byteOffset + 8)
    ELSE len

parseLength(chunk, len7) == lengthField64(chunk, lengthField16(chunk, len7))

\* a header parse that threw e
HeaderError(e) ==
    [err |-> e, fin |-> FALSE, rsv1 |-> 0, rsv2 |-> 0, rsv3 |-> 0, opcode |-> 0,
     mask |-> FALSE, payloadLen |-> 0, byteOffset |-> 0, maskingKey |-> <<>>]

\* lines 111-115 and the fields gathered so far
headerFields(chunk, firstByte, mask, len) ==
    IF len.err # "none" THEN HeaderError(len.err)
    ELSE [err |-> "none",
          fin |-> BitAt(firstByte, 7) = 1,
          rsv1 |-> BitAt(firstByte, 6),
          rsv2 |-> BitAt(firstByte, 5),
          rsv3 |-> BitAt(firstByte, 4),
          opcode |-> firstByte % 16,
          mask |-> mask,
          payloadLen |-> len.payloadLen,
          byteOffset |-> IF mask THEN len.byteOffset + 4 ELSE len.byteOffset,
          maskingKey |-> IF mask
                         THEN Slice(chunk, len.byteOffset, len.byteOffset + 4)
                         ELSE Alloc(4)]

\* lines 84-109
headerSecond(chunk, firstByte, secondByte) ==
    headerFields(chunk, firstByte, BitAt(secondByte, 7) = 1,
                 parseLength(chunk, secondByte % 128))

\* lines 71-85
headerFirst(chunk, firstByte) ==
    IF rsvNonZero(BitAt(firstByte, 6), BitAt(firstByte, 5), BitAt(firstByte, 4))
    THEN HeaderError("ProtocolError")
    ELSE IF ~ InRange(chunk, 1, 1) THEN HeaderError("RangeError")
    ELSE headerSecond(chunk, firstByte, readUInt8(chunk, 1))

\* lines 68-115: the header fields of a non-empty chunk, or the error thrown
parseHeader(chunk) == headerFirst(chunk, readUInt8(chunk, 0))

\* lines 121-132
pendingFrame(h, rawPayload) ==
    [fin |-> h.fin, rsv1 |-> h.rsv1, rsv2 |-> h.rsv2, rsv3 |-> h.rsv3,
     mask |-> h.mask, opcode |-> h.opcode, payloadLen |-> h.payloadLen,
     rawPayload |-> rawPayload, maskingKey |-> h.maskingKey,
     byteOffset |-> h.byteOffset]

\* line 137
framePayload(h, rawPayload) ==
    IF h.mask THEN unmask(rawPayload, h.payloadLen, h.maskingKey) ELSE rawPayload

\* lines 139-149
newFrame(h, payload) ==
    [fin |-> h.fin, rsv1 |-> h.rsv1, rsv2 |-> h.rsv2, rsv3 |-> h.rsv3,
     opcode |-> h.opcode, mask |-> h.mask, payloadLen |-> h.payloadLen,
     payload |-> payload, frameLen |-> h.byteOffset + Len(payload)]

\* lines 151-153
emitFrame_returnsChunk(first, frame, remainingBuffer) ==
    Outcome(first.fragmentedFrame, push(first.parsedFrames, frame), first.ret,
            "none", Append(first.emitted, frame))

emitFrame(first, frame, remainingBuffer) ==
    Outcome(first.fragmentedFrame, push(first.parsedFrames, frame), remainingBuffer,
            "none", Append(first.emitted, frame))

\* lines 120-153
payloadPart(first, h, rawPayload, remainingBuffer) ==
    IF incompleteFrame(rawPayload, h.payloadLen)
    THEN Outcome(pendingFrame(h, rawPayload), first.parsedFrames, <<>>, "none",
                 first.emitted)
    ELSE emitFrame(first, newFrame(h, framePayload(h, rawPayload)), remainingBuffer)

\* lines 117-153; a throw of the header parse leaves what readFragmentedBuffer did
framePart(first, chunk, h) ==
    IF h.err # "none"
    THEN Outcome(first.fragmentedFrame, first.parsedFrames, <<>>, h.err, first.emitted)
    ELSE payloadPart(first, h,
                     Slice(chunk, h.byteOffset, h.byteOffset + h.payloadLen),
                     Slice(chunk, h.byteOffset + h.payloadLen, Len(chunk)))

\* lines 63-153, first being the outcome of line 62
afterFragment(first) ==
    IF Len(first.ret) <= 0 THEN first
    ELSE framePart(first, first.ret, parseHeader(first.ret))

readFrame(ff, frames, chunk) == afterFragment(readFragmentedBuffer(ff, frames, chunk))

\* byte 0 of the header a readFrame call parses, -1 when it returns at line 64
headerByteOf(first) == IF Len(first.ret) <= 0 THEN -1 ELSE readUInt8(first.ret, 0)

headerByte(ff, frames, chunk) == headerByteOf(readFragmentedBuffer(ff, frames, chunk))

(***************************************************************************)
(* generateFirstByte (frame.ts 5-21) and createFrame (frame.ts 36-59)      *)
(***************************************************************************)
generateFirstByte(options) ==
    IF options.opcode = 1 /\ options.fin THEN 129
    ELSE IF options.opcode = 1 /\ ~ options.fin THEN 1
    ELSE IF options.opcode = 2 /\ options.fin THEN 130
    ELSE 2

\* buf.writeUInt8(value, offset)
writeUInt8(buf, value, offset) == [buf EXCEPT ![offset + 1] = value]

\* buf.writeUInt16BE(value, offset)
writeUInt16BE(buf, value, offset) ==
    [buf EXCEPT ![offset + 1] = value \div 256, ![offset + 2] = value % 256]

\* lines 47-51: byteOffset when the payload loop starts
payloadOffset(dataLen) == IF dataLen = 126 THEN 2 + 1 ELSE 2

\* lines 53-56: payload[i] written at byteOffset + i for i in 0..dataLen-1
\* (byteOffset + dataLen <= frameSize, so no write is out of range)
writePayload(buf, payload, byteOffset) ==
    [j \in 1..Len(buf) |->
        IF j - 1 >= byteOffset /\ j - 1 < byteOffset + Len(payload)
        THEN payload[j - byteOffset]
        ELSE buf[j]]

\* the buffer returned, or the RangeError of writeUInt8(payloadLen, 1) for a
\* value above 255
createFrame(payload, options) ==
    LET dataLen    == Len(payload)
        firstByte  == generateFirstByte(options)
        payloadLen == IF dataLen = 126 THEN 126 ELSE dataLen
        frameSize  == 2 + (IF dataLen = 126 THEN 2 ELSE 0) + dataLen
        b0 == writeUInt8(Alloc(frameSize), firstByte, 0)
    IN  IF payloadLen > 255 THEN [err |-> "RangeError", rawFrame |-> <<>>]
        ELSE
          LET b1 == writeUInt8(b0, payloadLen, 1)
              b2 == IF dataLen = 126 THEN writeUInt16BE(b1, dataLen, 2) ELSE b1
          IN  [err |-> "none",
               rawFrame |-> writePayload(b2, payload, payloadOffset(dataLen))]

(***************************************************************************)
(* The peer: the frames a client puts on the stream, in RFC 6455 5.2 wire  *)
(* format (README, "Second stage - parsing WebSocket frame").              *)
(***************************************************************************)
\* n bytes counting up from seed
Ramp(seed, n) == [i \in 1..n |-> (seed + i - 1) % 256]

\* the masking key of the peer's masked frames
ClientKey == <<55, 250, 33, 61>>

\* a frame as the peer means it; form is the width of the length encoding
\* (7, 16 or 64 bits), hi and len the halves of the declared length
Desc(fin, rsv, opcode, mask, form, hi, len, payload) ==
    [fin |-> fin, rsv |-> rsv, opcode |-> opcode, mask |-> mask, form |-> form,
     hi |-> hi, len |-> len, payload |-> payload]

\* the peer's own XOR, bit by bit from the top
RECURSIVE PeerXor(_, _, _)
PeerXor(a, b, w) ==
    IF w = 0 THEN 0
    ELSE (IF (a % 2) = (b % 2) THEN 0 ELSE 1) + 2 * PeerXor(a \div 2, b \div 2, w - 1)

U32(v) == <<(v \div 16777216) % 256, (v \div 65536) % 256, (v \div 256) % 256, v % 256>>

HeaderBytes(d) ==
    <<(IF d.fin THEN 128 ELSE 0) + 16 * d.rsv + d.opcode,
      (IF d.mask THEN 128 ELSE 0)
        + (IF d.form = 7 THEN d.len ELSE IF d.form = 16 THEN 126 ELSE 127)>>
    \o (IF d.form = 7 THEN <<>>
        ELSE IF d.form = 16 THEN <<d.len \div 256, d.len % 256>>
        ELSE U32(d.hi) \o U32(d.len))
    \o (IF d.mask THEN ClientKey ELSE <<>>)

WireFrame(d) ==
    HeaderBytes(d)
    \o (IF d.mask
        THEN [i \in 1..Len(d.payload) |->
                 PeerXor(d.payload[i], ClientKey[((i - 1) % 4) + 1], 8)]
        ELSE d.payload)

RECURSIVE WireStream(_)
WireStream(ds) == IF ds = <<>> THEN <<>> ELSE WireFrame(Head(ds)) \o WireStream(Tail(ds))

\* a complete valid frame: no reserved bit, the whole payload present, the
\* length in its minimal encoding
ValidDesc(d) ==
    /\ d.rsv = 0
    /\ d.hi = 0
    /\ Len(d.payload) = d.len
    /\ \/ d.form = 7 /\ d.len <= 125
       \/ d.form = 16 /\ d.len >= 126 /\ d.len <= 65535
       \/ d.form = 64 /\ d.len >= 65536

\* where the frames of a stream lie: their lengths on the wire, the offset of
\* frame i's first byte, and whether offset p falls strictly inside a header
\* or strictly inside a payload
WireLen(d) == Len(HeaderBytes(d)) + Len(d.payload)

RECURSIVE StreamLen(_)
StreamLen(ds) == IF ds = <<>> THEN 0 ELSE WireLen(Head(ds)) + StreamLen(Tail(ds))

FrameStart(ds, i) == StreamLen(SubSeq(ds, 1, i - 1))

CutInHeader(ds, p) ==
    \E i \in 1..Len(ds) :
        FrameStart(ds, i) < p /\ p < FrameStart(ds, i) + Len(HeaderBytes(ds[i]))

CutInPayload(ds, p) ==
    \E i \in 1..Len(ds) :
        /\ FrameStart(ds, i) + Len(HeaderBytes(ds[i])) < p
        /\ p < FrameStart(ds, i) + WireLen(ds[i])

\* the IFrame a valid frame decodes to
ExpectedFrame(d) ==
    [fin |-> d.fin, rsv1 |-> 0, rsv2 |-> 0, rsv3 |-> 0, opcode |-> d.opcode,
     mask |-> d.mask, payloadLen |-> Len(d.payload), payload |-> d.payload,
     frameLen |-> Len(WireFrame(d))]

HeadKinds == { [fin |-> TRUE, opcode |-> 1], [fin |-> FALSE, opcode |-> 2] }

ShortFrames ==
    { Desc(h.fin, 0, h.opcode, m, 7, 0, n, Ramp(65, n)) :
        h \in HeadKinds, m \in BOOLEAN, n \in {0, 1, 3} }

LongFrames ==
    { Desc(TRUE, 0, 1, m, 16, 0, n, Ramp(1, n)) : m \in BOOLEAN, n \in {126, 127} }
    \cup { Desc(TRUE, 0, 2, FALSE, 16, 0, 127, Alloc(8) \o Ramp(1, 119)) }

RsvFrames ==
    { Desc(TRUE, r, 1, FALSE, 7, 0, 1, Ramp(65, 1)) : r \in {1, 2, 4} }

\* 8-byte length fields: supported and unsupported, complete and cut short
WideFrames ==
    { Desc(TRUE, 0, 2, m, 64, hi, 2, Ramp(65, 2)) : m \in BOOLEAN, hi \in {0, 1} }
    \cup { Desc(TRUE, 0, 2, FALSE, 64, 0, 65536, Ramp(65, 3)),
           Desc(TRUE, 0, 2, TRUE, 64, 0, 126, Ramp(65, 3)),
           Desc(TRUE, 0, 2, FALSE, 64, 256, 0, <<>>),
           Desc(FALSE, 0, 1, TRUE, 64, 16777216, 1, Ramp(65, 1)),
           Desc(TRUE, 0, 1, FALSE, 16, 0, 3, Ramp(65, 3)) }

Descs == ShortFrames \cup LongFrames \cup RsvFrames \cup WideFrames

PairFirst ==
    { d \in ShortFrames : d.fin } \cup { Desc(TRUE, 0, 1, FALSE, 16, 0, 127, Ramp(1, 127)) }

PairSecond ==
    { d \in ShortFrames : d.fin /\ d.len # 1 } \cup RsvFrames
    \cup { Desc(TRUE, 0, 2, FALSE, 64, 1, 2, Ramp(65, 2)) }

Streams == { <<d>> : d \in Descs } \cup { <<a, b>> : a \in PairFirst, b \in PairSecond }

Options == { [opcode |-> o, fin |-> f] : o \in {1, 2}, f \in BOOLEAN }

EncodeLens == {0, 1, 2, 125, 126, 127, 128, 255, 256}

EncodePayloads == { Ramp(seed, n) : seed \in {0, 65, 127}, n \in EncodeLens }

MaskBytes == {0, 90, 255}

RECURSIVE SeqsUpTo(_, _)
SeqsUpTo(S, n) ==
    IF n = 0 THEN { <<>> }
    ELSE LET shorter == SeqsUpTo(S, n - 1)
         IN  shorter \cup { Append(q, x) : q \in { t \in shorter : Len(t) = n - 1 }, x \in S }

MaskKeys == { <<0, 0, 0, 0>>, ClientKey, <<255, 255, 255, 255>>, <<1, 2, 4, 8>> }

(***************************************************************************)
(* Initial states                                                          *)
(***************************************************************************)
InitDecoder ==
    /\ parsedFrames = <<>>
    /\ fragmentedFrame = undefined
    /\ remainingBuff = <<>>
    /\ err = "none"
    /\ nChunks = 0
    /\ lastOp = "init"
    /\ cleared = FALSE
    /\ lastEmitted = <<>>
    /\ framesBefore = <<>>
    /\ pendingBefore = FALSE
    /\ hdr0 = -1
    /\ hdrCut = FALSE
    /\ payCut = FALSE

InitEncoderIdle ==
    /\ payloadIn = <<>>
    /\ optionsIn = [opcode |-> 1, fin |-> TRUE]
    /\ rawFrame = <<>>

InitMaskIdle ==
    /\ mRaw = <<>>
    /\ mKey = <<0, 0, 0, 0>>
    /\ mOut = <<>>

\* a connection whose peer sends one of Streams
Init ==
    /\ InitDecoder
    /\ sent \in Streams
    /\ rest = WireStream(sent)
    /\ InitEncoderIdle
    /\ InitMaskIdle

\* the server about to encode a payload and read its own output back
InitCodec ==
    /\ InitDecoder
    /\ sent = <<>>
    /\ rest = <<>>
    /\ payloadIn \in EncodePayloads
    /\ optionsIn \in Options
    /\ rawFrame = <<>>
    /\ InitMaskIdle

\* unmask on its own
InitUnmask ==
    /\ InitDecoder
    /\ sent = <<>>
    /\ rest = <<>>
    /\ InitEncoderIdle
    /\ mRaw \in SeqsUpTo(MaskBytes, MaxLen)
    /\ mKey \in MaskKeys
    /\ mOut = <<>>

(***************************************************************************)
(* Actions                                                                 *)
(***************************************************************************)
\* remainingBuff = parser.readFrame(chunk): the whole call, with what it
\* leaves in the parser; a throw ends the handler
CallOutcome(r, h) ==
    /\ parsedFrames' = r.parsedFrames
    /\ fragmentedFrame' = r.fragmentedFrame
    /\ remainingBuff' = r.ret
    /\ err' = r.err
    /\ lastEmitted' = r.emitted
    /\ framesBefore' = parsedFrames
    /\ pendingBefore' = (fragmentedFrame # undefined)
    /\ hdr0' = h
    /\ lastOp' = "read"

Call(chunk) ==
    CallOutcome(readFrame(fragmentedFrame, parsedFrames, chunk),
                headerByte(fragmentedFrame, parsedFrames, chunk))

\* socket.on('data', buff): the transport delivers the next k bytes and the
\* handler makes its first readFrame call
OnData(k) ==
    /\ err = "none"
    /\ remainingBuff = <<>>
    /\ nChunks < MaxChunks
    /\ Call(SubSeq(rest, 1, k))
    /\ rest' = SubSeq(rest, k + 1, Len(rest))
    /\ nChunks' = nChunks + 1
    /\ hdrCut' = (hdrCut \/ CutInHeader(sent, StreamLen(sent) - Len(rest) + k))
    /\ payCut' = (payCut \/ CutInPayload(sent, StreamLen(sent) - Len(rest) + k))
    /\ UNCHANGED <<sent, cleared, encoderVars, maskVars>>

\* while (remainingBuff.byteLength > 0) remainingBuff = parser.readFrame(remainingBuff)
LoopStep ==
    /\ err = "none"
    /\ Len(remainingBuff) > 0
    /\ Call(remainingBuff)
    /\ UNCHANGED <<rest, nChunks, sent, cleared, cutVars, encoderVars, maskVars>>

\* parser.clearFrames(), by the caller between two runs of the handler loop
\* (the handler is synchronous: nothing runs between its readFrame calls)
CallClearFrames_resetsPending ==
    /\ lastOp \in {"init", "read", "clear"}
    /\ Len(remainingBuff) = 0
    /\ parsedFrames' = clearFrames(parsedFrames)
    /\ fragmentedFrame' = undefined
    /\ lastOp' = "clear"
    /\ cleared' = TRUE
    /\ UNCHANGED <<remainingBuff, err, rest, sent, nChunks,
                   lastEmitted, framesBefore, pendingBefore, hdr0, cutVars,
                   encoderVars, maskVars>>

CallClearFrames ==
    /\ lastOp \in {"init", "read", "clear"}
    /\ Len(remainingBuff) = 0
    /\ parsedFrames' = clearFrames(parsedFrames)
    /\ lastOp' = "clear"
    /\ cleared' = TRUE
    /\ UNCHANGED <<fragmentedFrame, remainingBuff, err, rest, sent, nChunks,
                   lastEmitted, framesBefore, pendingBefore, hdr0, cutVars,
                   encoderVars, maskVars>>

\* rawFrame = parser.createFrame(payloadIn, optionsIn)
CallCreateFrame ==
    /\ lastOp = "init"
    /\ LET r == createFrame(payloadIn, optionsIn) IN
         /\ rawFrame' = r.rawFrame
         /\ err' = r.err
    /\ lastOp' = "create"
    /\ UNCHANGED <<parsedFrames, fragmentedFrame, remainingBuff, rest, sent, nChunks,
                   cleared, lastEmitted, framesBefore, pendingBefore, hdr0, cutVars,
                   payloadIn, optionsIn, maskVars>>

\* parser.readFrame(rawFrame): the encoder's output read back in one call
FeedFrame ==
    /\ lastOp = "create"
    /\ err = "none"
    /\ Call(rawFrame)
    /\ nChunks' = nChunks + 1
    /\ UNCHANGED <<rest, sent, cleared, cutVars, encoderVars, maskVars>>

\* unmask applied to the previous result (to mRaw the first time)
CallUnmask ==
    /\ Len(mOut) < 2
    /\ mOut' = Append(mOut, unmask(IF mOut = <<>> THEN mRaw ELSE mOut[Len(mOut)],
                                   Len(mRaw), mKey))
    /\ lastOp' = "unmask"
    /\ UNCHANGED <<parsedFrames, fragmentedFrame, remainingBuff, err, rest, sent,
                   nChunks, cleared, lastEmitted, framesBefore, pendingBefore, hdr0,
                   cutVars, encoderVars, mRaw, mKey>>

Next ==
    \/ \E k \in 0..Len(rest) : OnData(k)
    \/ LoopStep
    \/ CallClearFrames

Spec == Init /\ [][Next]_vars

\* the handler is synchronous code: once entered, its while loop keeps running
SpecFair == Spec /\ WF_vars(LoopStep)

\* the transport keeps delivering: a data event with at least one byte
NonEmptyData == \E k \in 1..Len(rest) : OnData(k)

\* a connection on which non-empty chunks keep arriving
SpecArrive == Spec /\ WF_vars(NonEmptyData)

NextCodec ==
    \/ CallCreateFrame
    \/ FeedFrame
    \/ LoopStep

SpecCodec == InitCodec /\ [][NextCodec]_vars

NextUnmask == CallUnmask

SpecUnmask == InitUnmask /\ [][NextUnmask]_vars

(***************************************************************************)
(* What the claims speak about                                             *)
(***************************************************************************)
\* the whole stream of the connection, and how much of it has been delivered
Stream == WireStream(sent)

Delivered == Len(Stream) - Len(rest)

\* the handler loop of the last data event is over
LoopOver == Len(remainingBuff) = 0 \/ err # "none"

\* one readFrame call on an idle decoder with an empty queue, given everything
OneShot == readFrame(undefined, <<>>, Stream)

\* the handler loop on one buffer: readFrame, then readFrame on what it
\* returns while that is not empty; a throw ends it
RECURSIVE drain(_)
drain(r) ==
    IF r.err # "none" \/ Len(r.ret) = 0 THEN r
    ELSE drain(readFrame(r.fragmentedFrame, r.parsedFrames, r.ret))

handleData(ff, frames, buff) == drain(readFrame(ff, frames, buff))

\* the handler loop on an idle decoder with an empty queue, given everything
WholeStream == handleData(undefined, <<>>, Stream)

\* the state is the one left by the first readFrame call of the connection
\* (a later call of the loop starts with a frame in the queue)
FirstCall == lastOp = "read" /\ nChunks = 1 /\ framesBefore = <<>> /\ ~ cleared

\* the reserved bits of a header's byte 0
RsvOf(b) == (b \div 16) % 8

\* the header fields the decoder holds for the frame it parsed last
ParsedLen ==
    IF fragmentedFrame # undefined THEN fragmentedFrame.payloadLen
    ELSE parsedFrames[Len(parsedFrames)].payloadLen

ParsedOffset ==
    IF fragmentedFrame # undefined THEN fragmentedFrame.byteOffset
    ELSE parsedFrames[Len(parsedFrames)].frameLen
         - Len(parsedFrames[Len(parsedFrames)].payload)

(***************************************************************************)
(* C1  Fragmentation invariance: a complete valid frame that one readFrame *)
(* call on an idle decoder decodes to a single Frame, cut into two chunks  *)
(* at any byte and fed with two readFrame calls, yields without error the  *)
(* same single Frame.                                                      *)
(***************************************************************************)
C1_FragmentationInvariance ==
    ( /\ Len(sent) = 1 /\ ValidDesc(sent[1])
      /\ OneShot.err = "none" /\ OneShot.parsedFrames = <<ExpectedFrame(sent[1])>>
      /\ nChunks = 2 /\ rest = <<>> /\ ~ cleared )
    => /\ err = "none"
       /\ parsedFrames = OneShot.parsedFrames
       /\ fragmentedFrame = undefined

(***************************************************************************)
(* C2  Multi-frame coalescing: two complete valid frames delivered as one  *)
(* chunk and run through the handler loop leave exactly the two Frames in  *)
(* the queue, in stream order, each with its payload, and an empty         *)
(* remainder.                                                              *)
(***************************************************************************)
C2_Coalescing ==
    ( /\ Len(sent) = 2 /\ ValidDesc(sent[1]) /\ ValidDesc(sent[2])
      /\ nChunks = 1 /\ rest = <<>> /\ ~ cleared /\ LoopOver )
    => /\ err = "none"
       /\ remainingBuff = <<>>
       /\ Len(parsedFrames) = 2
       /\ parsedFrames[1] = ExpectedFrame(sent[1])
       /\ parsedFrames[2] = ExpectedFrame(sent[2])

(***************************************************************************)
(* C3  Round trip: for a payload of length 0, 1, 125 or 126 and any of the *)
(* four options, readFrame on createFrame's output yields exactly one      *)
(* Frame with the payload, the opcode and fin given, and mask false.       *)
(***************************************************************************)
C3_RoundTrip ==
    ( /\ Len(payloadIn) \in {0, 1, 125, 126}
      /\ lastOp = "read" /\ nChunks = 1 /\ framesBefore = <<>> )
    => /\ err = "none"
       /\ Len(parsedFrames) = 1
       /\ fragmentedFrame = undefined
       /\ parsedFrames[1].payload = payloadIn
       /\ parsedFrames[1].opcode = optionsIn.opcode
       /\ parsedFrames[1].fin = optionsIn.fin
       /\ parsedFrames[1].mask = FALSE

(***************************************************************************)
(* C4  Length-126 boundary: for a payload of 126 bytes createFrame writes  *)
(* 126 in byte 1, 126 as a big-endian 16-bit field in bytes 2-3 and the    *)
(* payload from byte 4 on, and reading that back yields a Frame of         *)
(* payloadLen 126 with the same bytes.                                     *)
(***************************************************************************)
C4_Length126 ==
    Len(payloadIn) = 126 =>
       /\ lastOp = "create" =>
            /\ err = "none"
            /\ Len(rawFrame) = 130
            /\ rawFrame[2] = 126
            /\ rawFrame[3] = 0 /\ rawFrame[4] = 126
            /\ SubSeq(rawFrame, 5, 130) = payloadIn
       /\ (lastOp = "read" /\ nChunks = 1 /\ framesBefore = <<>>) =>
            /\ Len(parsedFrames) = 1
            /\ parsedFrames[1].payloadLen = 126
            /\ parsedFrames[1].payload = payloadIn

(***************************************************************************)
(* C5  RSV rejection, as claimed: a readFrame call that parses a header    *)
(* with a reserved bit set throws the protocol error and leaves the queue  *)
(* as long as it was, whatever the decoder's state before the call.        *)
(***************************************************************************)
C5_RsvRejection_Original ==
    (lastOp = "read" /\ hdr0 >= 0 /\ RsvOf(hdr0) # 0)
    => /\ err = "ProtocolError"
       /\ Len(parsedFrames) = Len(framesBefore)

(***************************************************************************)
(* C5  RSV rejection, amended: such a call throws the protocol error and   *)
(* emits no Frame for that header; the queue is unchanged when the decoder *)
(* was idle at the call, and has grown by exactly the one completed        *)
(* pending frame when the call started with a pending partial frame.       *)
(***************************************************************************)
C5_RsvRejection ==
    (lastOp = "read" /\ hdr0 >= 0 /\ RsvOf(hdr0) # 0)
    => /\ err = "ProtocolError"
       /\ fragmentedFrame = undefined
       /\ Len(lastEmitted) = (IF pendingBefore THEN 1 ELSE 0)
       /\ parsedFrames = framesBefore \o lastEmitted

\* a valid frame cut inside its payload, then the rest of it together with a
\* frame whose header has a reserved bit set
C5_Witness ==
    /\ Len(sent) = 2 /\ ValidDesc(sent[1]) /\ sent[2].rsv # 0
    /\ lastOp = "read" /\ hdr0 = HeaderBytes(sent[2])[1]
    /\ err = "ProtocolError"
    /\ pendingBefore
    /\ framesBefore = <<>>
    /\ parsedFrames = <<ExpectedFrame(sent[1])>>

(***************************************************************************)
(* C6  Extended-length overflow: when the first call gets the whole header *)
(* of a frame whose 7-bit length is 127, a nonzero high half makes it      *)
(* throw the unsupported-length error with no Frame and no pending frame;  *)
(* a zero high half makes payloadLen the low half and the header end 8     *)
(* bytes later (offset 10, or 14 with a masking key).  Any call that       *)
(* throws that error emits no Frame for the header it was parsing.         *)
(***************************************************************************)
C6_ExtendedLength ==
    /\ ( /\ Len(sent) >= 1 /\ sent[1].form = 64 /\ sent[1].rsv = 0
         /\ FirstCall /\ Delivered >= Len(HeaderBytes(sent[1])) )
       => IF sent[1].hi # 0
          THEN /\ err = "UnsupportedLength"
               /\ parsedFrames = <<>>
               /\ fragmentedFrame = undefined
          ELSE /\ err = "none"
               /\ ParsedLen = sent[1].len
               /\ ParsedOffset = 2 + 8 + (IF sent[1].mask THEN 4 ELSE 0)
    /\ (lastOp = "read" /\ err = "UnsupportedLength")
       => /\ fragmentedFrame = undefined
          /\ Len(lastEmitted) = (IF pendingBefore THEN 1 ELSE 0)
          /\ parsedFrames = framesBefore \o lastEmitted

C6_Witness ==
    /\ Len(sent) = 1 /\ sent[1].form = 64 /\ sent[1].hi # 0
    /\ FirstCall /\ Delivered = Len(Stream)
    /\ err = "UnsupportedLength"
    /\ parsedFrames = <<>>

(***************************************************************************)
(* C7  Clear semantics: right after clearFrames the queue is empty, and    *)
(* after the readFrame call that follows it the queue holds exactly the    *)
(* Frames that call constructed.                                           *)
(***************************************************************************)
C7_ClearSemantics ==
    /\ [](lastOp = "clear" => parsedFrames = <<>>)
    /\ [][(lastOp = "clear" /\ lastOp' = "read") => parsedFrames' = lastEmitted']_vars

C7_Witness ==
    /\ Len(sent) = 2 /\ ValidDesc(sent[1]) /\ ValidDesc(sent[2])
    /\ cleared /\ lastOp = "read" /\ rest = <<>>
    /\ framesBefore = <<>>
    /\ parsedFrames = <<ExpectedFrame(sent[2])>>

(***************************************************************************)
(* C8  Masking involution: unmask returns a buffer of length len, and      *)
(* applied twice with the same key it returns the payload it started from. *)
(***************************************************************************)
C8_MaskingInvolution ==
    /\ \A i \in 1..Len(mOut) : Len(mOut[i]) = Len(mRaw)
    /\ Len(mOut) = 2 => mOut[2] = mRaw

C8_Witness ==
    /\ Len(mOut) = 2
    /\ Len(mRaw) = MaxLen
    /\ mKey = ClientKey
    /\ mOut[1] # mRaw
    /\ mOut[2] = mRaw

(***************************************************************************)
(* C9  Every Frame in the queue has a payload of payloadLen bytes, whether *)
(* readFrame emitted it directly or readFragmentedBuffer completed it.     *)
(***************************************************************************)
C9_PayloadLength ==
    \A i \in 1..Len(parsedFrames) :
        Len(parsedFrames[i].payload) = parsedFrames[i].payloadLen

C9_Witness ==
    /\ lastOp = "read" /\ pendingBefore
    /\ Len(lastEmitted) = 1
    /\ lastEmitted[1].mask
    /\ lastEmitted[1].payloadLen = 126
    /\ Len(lastEmitted[1].payload) = 126
    /\ parsedFrames = lastEmitted

(***************************************************************************)
(* C10  Server frames are never masked: whenever createFrame returns a     *)
(* buffer, bit 7 of its byte 1 is 0.                                       *)
(***************************************************************************)
C10_NeverMasked ==
    (lastOp = "create" /\ err = "none") => BitAt(rawFrame[2], 7) = 0

(***************************************************************************)
(* What the claims about single calls speak about                          *)
(***************************************************************************)
\* s is a prefix of t
IsPrefix(s, t) == Len(s) <= Len(t) /\ SubSeq(t, 1, Len(s)) = s

\* s is a suffix of t
IsSuffix(s, t) == Len(s) <= Len(t) /\ SubSeq(t, Len(t) - Len(s) + 1, Len(t)) = s

\* in a step that is a readFrame call of the data handler: the chunk passed
\* (what the loop still holds, else the bytes the data event delivers)
ChunkPassed ==
    IF Len(remainingBuff) > 0 THEN remainingBuff
    ELSE SubSeq(rest, 1, Len(rest) - Len(rest'))

\* the positions of a frame in the queue
PositionsOf(frame) == { i \in 1..Len(parsedFrames) : parsedFrames[i] = frame }

(***************************************************************************)
(* C11  The queue is append-only between clears: over every readFrame call *)
(* (also one that throws) the queue before the call is a prefix of the     *)
(* queue after it, the frames the call constructed being added at the end  *)
(* in the order it constructed them; only clearFrames removes frames; and  *)
(* two different valid frames of a stream that are both in the queue stand *)
(* there in the order of the stream.                                       *)
(***************************************************************************)
C11_AppendOnly ==
    /\ [][ /\ lastOp' = "read" => parsedFrames' = parsedFrames \o lastEmitted'
           /\ lastOp' # "clear" => IsPrefix(parsedFrames, parsedFrames') ]_vars
    /\ []( ( /\ Len(sent) = 2 /\ ValidDesc(sent[1]) /\ ValidDesc(sent[2])
             /\ ExpectedFrame(sent[1]) # ExpectedFrame(sent[2]) )
           => \A i \in PositionsOf(ExpectedFrame(sent[1])) :
                  \A j \in PositionsOf(ExpectedFrame(sent[2])) : i < j )

\* a second call has added the second frame of a stream behind the first
C11_Witness ==
    /\ Len(sent) = 2 /\ ~ cleared /\ lastOp = "read" /\ err = "none"
    /\ ExpectedFrame(sent[1]) # ExpectedFrame(sent[2])
    /\ framesBefore = <<ExpectedFrame(sent[1])>>
    /\ parsedFrames = <<ExpectedFrame(sent[1]), ExpectedFrame(sent[2])>>

\* the sum of the frameLen fields of a queue
RECURSIVE SumFrameLen(_)
SumFrameLen(frames) ==
    IF frames = <<>> THEN 0 ELSE Head(frames).frameLen + SumFrameLen(Tail(frames))

\* the bytes of the stream the decoder has taken so far: those delivered less
\* those the last call handed back
Consumed == Delivered - Len(remainingBuff)

(***************************************************************************)
(* C12  frameLen is the number of stream bytes consumed for the frame      *)
(* (header with extended length and masking key, plus payload), whatever   *)
(* the chunking: on a stream of valid frames, whenever the decoder is idle *)
(* after a call that returned, the frames emitted so far account for       *)
(* exactly the bytes consumed so far, so that each header starts frameLen  *)
(* bytes after the first byte of the frame before it.                      *)
(***************************************************************************)
C12_FrameLenIsConsumed ==
    ( /\ \A i \in 1..Len(sent) : ValidDesc(sent[i])
      /\ lastOp = "read" /\ err = "none" /\ ~ cleared
      /\ fragmentedFrame = undefined )
    => SumFrameLen(parsedFrames) = Consumed

(***************************************************************************)
(* C13  When the 7-bit length is 126 the next two bytes, read big-endian,  *)
(* are the payload length, whatever their value v in 0..65535; the offset  *)
(* advances by exactly 2 and no further length byte is read: the first     *)
(* call on a chunk that holds the whole header of a frame with a 16-bit    *)
(* length field returns with payloadLen = v and the payload starting       *)
(* right behind the header.                                                *)
(***************************************************************************)
C13_Length16 ==
    ( /\ Len(sent) >= 1 /\ sent[1].form = 16 /\ sent[1].rsv = 0
      /\ FirstCall /\ Delivered >= Len(HeaderBytes(sent[1])) )
    => /\ err = "none"
       /\ ParsedLen = sent[1].len
       /\ ParsedOffset = Len(HeaderBytes(sent[1]))

(***************************************************************************)
(* C14  There is at most one pending partial frame (the single slot        *)
(* fragmentedFrame), and whenever one exists it holds strictly fewer raw   *)
(* payload bytes than its payloadLen: the call in which the buffered bytes *)
(* reach payloadLen emits the frame and clears the slot.                   *)
(***************************************************************************)
C14_PendingIsShort ==
    fragmentedFrame # undefined
    => Len(fragmentedFrame.rawPayload) < fragmentedFrame.payloadLen

\* a pending frame one byte short of complete, after two calls added to it
C14_Witness ==
    /\ fragmentedFrame # undefined
    /\ pendingBefore
    /\ nChunks = 3
    /\ fragmentedFrame.payloadLen >= 3
    /\ Len(fragmentedFrame.rawPayload) = fragmentedFrame.payloadLen - 1

\* of the pending frame: the payload bytes still missing (frame.ts 161)
Remaining == fragmentedFrame.payloadLen - Len(fragmentedFrame.rawPayload)

\* the step is a readFrame call made while a frame is pending
CallWhilePending == lastOp' = "read" /\ fragmentedFrame # undefined

\* the raw payload of the pending frame once the chunk passed completes it
CompletedRaw == fragmentedFrame.rawPayload \o SubSeq(ChunkPassed, 1, Remaining)

\* a raw payload under a masking key, the key applied from the first byte of
\* the frame's payload
Unmasked(raw, key) ==
    [i \in 1..Len(raw) |-> PeerXor(raw[i], key[((i - 1) % 4) + 1], 8)]

\* frame carries the header fields stored in the pending frame
CarriesStoredHeader(frame) ==
    /\ frame.fin = fragmentedFrame.fin
    /\ frame.rsv1 = fragmentedFrame.rsv1
    /\ frame.rsv2 = fragmentedFrame.rsv2
    /\ frame.rsv3 = fragmentedFrame.rsv3
    /\ frame.opcode = fragmentedFrame.opcode
    /\ frame.mask = fragmentedFrame.mask
    /\ frame.payloadLen = fragmentedFrame.payloadLen

\* frame is the pending frame completed by the chunk passed
IsCompletedPending(frame) ==
    /\ CarriesStoredHeader(frame)
    /\ Len(frame.payload) = fragmentedFrame.payloadLen
    /\ ~ fragmentedFrame.mask => frame.payload = CompletedRaw
    /\ (fragmentedFrame.mask /\ Len(fragmentedFrame.maskingKey) = 4)
       => frame.payload = Unmasked(CompletedRaw, fragmentedFrame.maskingKey)

(***************************************************************************)
(* C15  With a frame pending and a chunk of at least the missing           *)
(* remainingByteLen bytes, readFragmentedBuffer consumes exactly the first *)
(* remainingByteLen bytes of the chunk, appends exactly one Frame, which   *)
(* carries the stored header fields and the completed payload, leaves no   *)
(* frame pending and returns exactly the rest of the chunk; readFrame      *)
(* goes on from that.                                                      *)
(***************************************************************************)
C15_Completion ==
    [][ (CallWhilePending /\ Len(ChunkPassed) >= Remaining)
        => \E R \in { readFragmentedBuffer(fragmentedFrame, parsedFrames, ChunkPassed) } :
               /\ R.err = "none"
               /\ R.ret = SubSeq(ChunkPassed, Remaining + 1, Len(ChunkPassed))
               /\ R.fragmentedFrame = undefined
               /\ R.parsedFrames = parsedFrames \o R.emitted
               /\ Len(R.emitted) = 1
               /\ IsCompletedPending(R.emitted[1])
               /\ IsPrefix(R.parsedFrames, parsedFrames')
               /\ lastEmitted'[1] = R.emitted[1]
               /\ R.ret = <<>> => (fragmentedFrame' = undefined /\ remainingBuff' = <<>>)
      ]_vars

\* a call completed the pending masked frame and decoded the frame behind it
C15_Witness ==
    /\ lastOp = "read" /\ pendingBefore /\ err = "none"
    /\ fragmentedFrame = undefined
    /\ Len(lastEmitted) = 2
    /\ lastEmitted[1].mask /\ lastEmitted[1].payloadLen = 3

(***************************************************************************)
(* C16  With a frame pending and a chunk shorter than the missing          *)
(* remainingByteLen bytes, readFrame appends the whole chunk to the        *)
(* buffered raw payload, keeps the frame pending with its header fields    *)
(* unchanged, leaves the queue unchanged, parses no header and returns an  *)
(* empty remainder.                                                        *)
(***************************************************************************)
C16_Buffering ==
    [][ (CallWhilePending /\ Len(ChunkPassed) < Remaining)
        => /\ err' = "none"
           /\ fragmentedFrame' =
                  [fragmentedFrame EXCEPT !.rawPayload = @ \o ChunkPassed]
           /\ parsedFrames' = parsedFrames
           /\ lastEmitted' = <<>>
           /\ hdr0' = -1
           /\ remainingBuff' = <<>>
      ]_vars

\* the third data event added bytes to a masked pending frame
C16_Witness ==
    /\ lastOp = "read" /\ pendingBefore /\ nChunks = 3
    /\ fragmentedFrame # undefined /\ fragmentedFrame.mask
    /\ Len(fragmentedFrame.rawPayload) >= 2
    /\ lastEmitted = <<>> /\ hdr0 = -1 /\ parsedFrames = <<>>

\* the step completed the pending frame and put it in the queue
PendingEmitted ==
    /\ Len(ChunkPassed) >= Remaining
    /\ Len(lastEmitted') >= 1
    /\ IsCompletedPending(lastEmitted'[1])
    /\ IsPrefix(Append(parsedFrames, lastEmitted'[1]), parsedFrames')

(***************************************************************************)
(* C17  A header is parsed only when no frame is pending at that point: a  *)
(* readFrame call made while a frame is pending parses a header, or puts   *)
(* another frame in the slot, or empties the slot, only after it has       *)
(* completed the pending frame and put it in the queue; otherwise the      *)
(* pending frame stays, with the chunk added to its payload.               *)
(***************************************************************************)
C17_HeaderOnlyWhenIdle ==
    [][ CallWhilePending
        => \/ PendingEmitted
           \/ /\ hdr0' = -1
              /\ fragmentedFrame' =
                     [fragmentedFrame EXCEPT !.rawPayload = @ \o ChunkPassed]
      ]_vars

\* a call completed the pending frame, parsed the header behind it and left
\* that frame pending in its turn
C17_Witness ==
    /\ lastOp = "read" /\ pendingBefore /\ err = "none"
    /\ hdr0 >= 0
    /\ Len(lastEmitted) = 1
    /\ parsedFrames = <<ExpectedFrame(sent[1])>>
    /\ fragmentedFrame # undefined
    /\ Len(fragmentedFrame.rawPayload) >= 1

\* the payload of a frame as it stands on the wire
WirePayload(d) ==
    SubSeq(WireFrame(d), Len(HeaderBytes(d)) + 1, Len(WireFrame(d)))

(***************************************************************************)
(* C18  A masked frame whose payload arrives over two or more chunks: the  *)
(* bytes buffered for it are the bytes of the wire, still masked, and the  *)
(* payload emitted is raw[i] XOR maskingKey[i mod 4] with i counted from   *)
(* the start of the frame's payload and maskingKey the 4 key bytes of the  *)
(* frame's header, which is the payload the peer masked.                   *)
(***************************************************************************)
C18_MaskedReassembly ==
    ( /\ Len(sent) = 1 /\ ValidDesc(sent[1]) /\ sent[1].mask
      /\ payCut /\ err = "none" /\ ~ cleared )
    => /\ fragmentedFrame # undefined
          => IsPrefix(fragmentedFrame.rawPayload, WirePayload(sent[1]))
       /\ Len(parsedFrames) >= 1
          => parsedFrames[1].payload = Unmasked(WirePayload(sent[1]), ClientKey)

\* the feed is over: the handler loop of the last data event has ended and
\* the whole stream has been delivered, or a call threw
FeedOver == LoopOver /\ (rest = <<>> \/ err # "none")

(***************************************************************************)
(* C19  A stream of complete valid frames, divided into chunks (empty ones *)
(* included) with no cut inside a header, and fed chunk by chunk with the  *)
(* handler loop, yields the same sequence of Frames as the handler loop    *)
(* run on the whole stream as one chunk, and leaves no frame pending.      *)
(***************************************************************************)
C19_ChunkingEquivalence ==
    ( /\ \A i \in 1..Len(sent) : ValidDesc(sent[i])
      /\ ~ hdrCut /\ lastOp = "read" /\ ~ cleared /\ FeedOver )
    => /\ parsedFrames = WholeStream.parsedFrames
       /\ fragmentedFrame = undefined

(***************************************************************************)
(* C20  The handler loop terminates: every readFrame call that returns     *)
(* normally returns a suffix of the chunk it was given, strictly shorter   *)
(* than the chunk when the chunk is not empty and empty when the chunk is  *)
(* empty; and whenever the loop holds a non-empty remainder it comes, as   *)
(* it keeps running, to an empty remainder or a throw.                     *)
(***************************************************************************)
C20_LoopTerminates ==
    /\ [][ (lastOp' = "read" /\ err' = "none")
           => /\ IsSuffix(remainingBuff', ChunkPassed)
              /\ Len(ChunkPassed) > 0 => Len(remainingBuff') < Len(ChunkPassed)
              /\ Len(ChunkPassed) = 0 => remainingBuff' = <<>>
         ]_vars
    /\ (Len(remainingBuff) > 0) ~> LoopOver

\* the first call on two frames in one chunk decoded the first frame and
\* handed back the bytes of the second
C20_Witness ==
    /\ lastOp = "read" /\ err = "none" /\ nChunks = 1
    /\ Len(sent) = 2
    /\ parsedFrames = <<ExpectedFrame(sent[1])>>
    /\ remainingBuff = WireFrame(sent[2])

\* no further non-empty chunk can arrive: a call threw, the bound on data
\* events is reached or the whole stream has been delivered
NoMoreData == err # "none" \/ nChunks >= MaxChunks \/ rest = <<>>

\* the last call found a frame pending and completed it
PendingCompleted == lastOp = "read" /\ pendingBefore /\ Len(lastEmitted) >= 1

(***************************************************************************)
(* C21  Progress of reassembly: a call with a non-empty chunk made while a *)
(* frame is pending either completes and emits that frame or leaves it     *)
(* pending with strictly fewer payload bytes missing; the pending frame    *)
(* changes in no step other than a readFrame call with a non-empty chunk;  *)
(* and as long as non-empty chunks keep arriving a pending frame is        *)
(* eventually completed and emitted, the slot being emptied for it.        *)
(***************************************************************************)
C21_ReassemblyProgress ==
    /\ [][ (CallWhilePending /\ Len(ChunkPassed) > 0)
           => \/ PendingEmitted
              \/ /\ fragmentedFrame' # undefined
                 /\ fragmentedFrame'.payloadLen - Len(fragmentedFrame'.rawPayload)
                        < Remaining
         ]_vars
    /\ [][ (fragmentedFrame # undefined /\ fragmentedFrame' # fragmentedFrame)
           => (lastOp' = "read" /\ Len(ChunkPassed) > 0)
         ]_vars
    /\ (fragmentedFrame # undefined) ~> (PendingCompleted \/ NoMoreData)

\* a frame of 126 payload bytes, pending after the first and the second data
\* event, was completed and emitted by the third
C21_Witness ==
    /\ PendingCompleted /\ nChunks = 3 /\ err = "none" /\ ~ cleared
    /\ Len(sent) = 1 /\ sent[1].len = 126 /\ ~ hdrCut
    /\ parsedFrames = <<ExpectedFrame(sent[1])>>
    /\ fragmentedFrame = undefined

\* the errors readFrame raises on purpose (frame.ts 78 and 104)
RaisedErrors == {"ProtocolError", "UnsupportedLength"}

(***************************************************************************)
(* C22  State unchanged on error, as claimed: after a readFrame call that  *)
(* raised the protocol error or the unsupported-length error, the queue is *)
(* the queue of before the call and the slot holds a pending frame exactly *)
(* if it held one before the call (stated here for feeds in which no      *)
(* header was cut by a chunk boundary).                                    *)
(***************************************************************************)
C22_UnchangedOnError_Original ==
    (lastOp = "read" /\ err \in RaisedErrors /\ ~ hdrCut)
    => /\ parsedFrames = framesBefore
       /\ (fragmentedFrame # undefined) = pendingBefore

(***************************************************************************)
(* C22  State on error, amended: a readFrame call that raises the protocol *)
(* error or the unsupported-length error emits no Frame and stores no      *)
(* pending frame for the header it was parsing.  Made on an idle decoder   *)
(* it leaves the queue and the empty slot exactly as they were; made while *)
(* a frame was pending, it has first completed that frame, appended it to  *)
(* the queue and emptied the slot, and nothing else has changed.           *)
(***************************************************************************)
C22_StateOnError ==
    [][ (lastOp' = "read" /\ err' \in RaisedErrors)
        => /\ fragmentedFrame' = undefined
           /\ IF fragmentedFrame = undefined
              THEN parsedFrames' = parsedFrames /\ lastEmitted' = <<>>
              ELSE /\ PendingEmitted
                   /\ Len(lastEmitted') = 1
                   /\ parsedFrames' = Append(parsedFrames, lastEmitted'[1])
      ]_vars

\* the chunk that completed a pending valid frame went on with a header
\* announcing an unsupported 8-byte length
C22_Witness ==
    /\ Len(sent) = 2 /\ ValidDesc(sent[1]) /\ sent[1].len # 127
    /\ sent[2].form = 64 /\ sent[2].hi = 1
    /\ lastOp = "read" /\ err = "UnsupportedLength"
    /\ pendingBefore /\ framesBefore = <<>>
    /\ parsedFrames = <<ExpectedFrame(sent[1])>>
    /\ fragmentedFrame = undefined

\* the frames a stream of valid frames decodes to
ExpectedFrames == [i \in 1..Len(sent) |-> ExpectedFrame(sent[i])]

(***************************************************************************)
(* C23  clearFrames changes only the queue: it leaves the pending frame    *)
(* (stored header fields and buffered raw payload) and everything else of  *)
(* the decoder as it was; the readFrame call that follows a clear and      *)
(* brings the missing bytes completes the pending frame from the bytes     *)
(* buffered before the clear and emits it as the first frame of the new    *)
(* queue; and on a stream of valid frames, a frame that was pending when   *)
(* the queue was emptied is emitted whole, as the peer sent it, with the   *)
(* frames behind it.                                                       *)
(***************************************************************************)
C23_ClearKeepsPending ==
    /\ [][ lastOp' = "clear"
           => /\ fragmentedFrame' = fragmentedFrame
              /\ remainingBuff' = remainingBuff /\ err' = err ]_vars
    /\ [][ (lastOp = "clear" /\ CallWhilePending /\ Len(ChunkPassed) >= Remaining)
           => /\ PendingEmitted
              /\ parsedFrames'[1] = lastEmitted'[1] ]_vars
    /\ []( ( /\ \A i \in 1..Len(sent) : ValidDesc(sent[i])
             /\ WholeStream.parsedFrames = ExpectedFrames
             /\ ~ hdrCut /\ cleared /\ PendingCompleted /\ framesBefore = <<>>
             /\ rest = <<>> /\ LoopOver )
           => /\ err = "none"
              /\ Len(parsedFrames) >= 1
              /\ IsSuffix(parsedFrames, ExpectedFrames)
              /\ fragmentedFrame = undefined )

\* two frames in two data events: the first event brought the first frame and
\* part of the second, the caller cleared the queue while the second frame
\* was pending, and the second event completed and emitted it
C23_Witness ==
    /\ Len(sent) = 2 /\ ValidDesc(sent[1]) /\ ValidDesc(sent[2])
    /\ sent[2].mask /\ sent[2].len = 3
    /\ ~ hdrCut /\ payCut /\ cleared /\ PendingCompleted /\ nChunks = 2
    /\ rest = <<>> /\ err = "none"
    /\ framesBefore = <<>>
    /\ parsedFrames = <<ExpectedFrame(sent[2])>>
====
